---- MODULE Spec2Model ----
(***************************************************************************)
(* A model of pdfminer/cmapdb.py: the CMap trie store (add_code2cid,       *)
(* use_cmap, decode), the IdentityCMap codec, the unicode store            *)
(* (add_cid2unicode) and the keyword handler of CMapParser.                *)
(*                                                                         *)
(* Python values are tagged records.  A dict of the trie is a node of a    *)
(* heap, so that two CMaps holding the same dict object are told apart     *)
(* from two CMaps holding equal dicts.  A byte is a number in 0..MaxByte   *)
(* and big-endian packing uses the radix MaxByte+1 (256 in the source).    *)
(***************************************************************************)
EXTENDS Integers, Sequences, FiniteSets, TLC

VARIABLES
    heap,         \* the dicts of the trie stores: heap[n] maps a byte to an entry
    hist,         \* the store-building calls made so far
    last,         \* the latest call, with its arguments and its result
    kind,         \* the class of the parser's cmap: FileCMap or FileUnicodeMap
    stack,        \* the parser's operand stack
    in_cmap,      \* CMapParser._in_cmap
    cid2unicode,  \* FileUnicodeMap.cid2unicode
    attrs,        \* the attrs of the parser's cmap
    ntok,         \* tokens read so far
    run           \* "running", "returned", or the exception that ended run()

vars == <<heap, hist, last, kind, stack, in_cmap, cid2unicode, attrs, ntok, run>>

(***************************************************************************)
(* Bounds                                                                  *)
(***************************************************************************)
\* bytes are 0..MaxByte
MaxByte == 2
\* store-building calls in a behaviour of Spec
MaxOps == 2
\* length of the byte-strings given to decode
MaxCodeLen == 3
\* the bytes of the codes of the trie store are 0..MaxKeyByte
MaxKeyByte == 1
\* store-building calls in a behaviour of SpecMerge
MaxMergeOps == 3
\* length of the byte-strings given to IdentityCMap.decode
MaxIdLen == 4
\* tokens of the stream the parser reads
MaxTokens == 5
\* operands on the stack when the token stream brings one more
MaxStack == 3
\* calls of add_cid2unicode in a behaviour of SpecUnicode
MaxUnicodeOps == 2

Bytes == 0..MaxByte
ByteRadix == MaxByte + 1

\* the byte-strings of length lo..hi
ByteStrings(lo, hi) == UNION {[1..n -> Bytes] : n \in lo..hi}

\* the bytes of the codes given to the trie store, which never computes with
\* a byte: it only looks it up
KeyBytes == 0..MaxKeyByte
KeyStrings(lo, hi) == UNION {[1..n -> KeyBytes] : n \in lo..hi}
\* the codes given to add_code2cid: one or two bytes
Keys == KeyStrings(1, 2)
Codes == KeyStrings(0, MaxCodeLen)
\* the id given to add_code2cid by the n-th store-building call: ids are opaque to
\* the store (never compared or computed with), so each call brings a new one
NewCid(n) == n + 1

(***************************************************************************)
(* The trie store: nested dicts as heap nodes                              *)
(***************************************************************************)
IntEntry(v) == [isint |-> TRUE, v |-> v]
DictEntry(n) == [isint |-> FALSE, v |-> n]
EmptyDict == << >>

\* d[c] = e
Put(d, c, e) == [x \in (DOMAIN d) \cup {c} |-> IF x = c THEN e ELSE d[x]]

CMaps == {"A", "B"}
Root(m) == IF m = "A" THEN 1 ELSE 2

\* for c in code[:-1]: descend, creating dicts as needed.  d is the value the
\* variable d holds (a dict reference or, after d = d[c] on a leaf, an int).
RECURSIVE add_walk(_, _, _)
add_walk(h, d, code) ==
    IF Len(code) <= 1 THEN [heap |-> h, d |-> d, raised |-> "none"]
    ELSE LET c == Head(code) IN
         IF d.isint THEN [heap |-> h, d |-> d, raised |-> "TypeError"]
         ELSE IF c \in DOMAIN h[d.v] THEN add_walk(h, h[d.v][c], Tail(code))
         ELSE LET t == Len(h) + 1
                  h1 == Append([h EXCEPT ![d.v] = Put(@, c, DictEntry(t))], EmptyDict)
              IN add_walk(h1, DictEntry(t), Tail(code))

\* a variant of add_code2cid that binds the last byte in the root dict
add_code2cid_at_root(h, root, code, cid) ==
    LET w == add_walk(h, DictEntry(root), code) IN
    IF w.raised # "none" THEN [heap |-> w.heap, raised |-> w.raised]
    ELSE IF Len(code) = 0 THEN [heap |-> w.heap, raised |-> "IndexError"]
    ELSE [heap |-> [w.heap EXCEPT ![root] = Put(@, code[Len(code)], IntEntry(cid))],
          raised |-> "none"]

add_code2cid(h, root, code, cid) ==
    LET w == add_walk(h, DictEntry(root), code) IN
    IF w.raised # "none" THEN [heap |-> w.heap, raised |-> w.raised]
    ELSE IF Len(code) = 0 THEN [heap |-> w.heap, raised |-> "IndexError"]
    ELSE IF w.d.isint THEN [heap |-> w.heap, raised |-> "TypeError"]
    ELSE [heap |-> [w.heap EXCEPT ![w.d.v] = Put(@, code[Len(code)], IntEntry(cid))],
          raised |-> "none"]

\* a variant of decode_step that looks an unmatched byte up again from the root
decode_step_retry(h, root, d, c) ==
    LET at == IF c \in DOMAIN h[d] THEN d ELSE root IN
    IF c \in DOMAIN h[at]
    THEN LET e == h[at][c] IN
         IF e.isint THEN [d |-> root, yield |-> <<e.v>>]
         ELSE [d |-> e.v, yield |-> << >>]
    ELSE [d |-> root, yield |-> << >>]

\* a variant of decode_step that stays where it is after yielding an id
decode_step_no_reset(h, root, d, c) ==
    IF c \in DOMAIN h[d]
    THEN LET e == h[d][c] IN
         IF e.isint THEN [d |-> d, yield |-> <<e.v>>]
         ELSE [d |-> e.v, yield |-> << >>]
    ELSE [d |-> root, yield |-> << >>]

\* one iteration of the loop of decode: the walk position after byte c and
\* what the generator yields for it
decode_step(h, root, d, c) ==
    IF c \in DOMAIN h[d]
    THEN LET e == h[d][c] IN
         IF e.isint THEN [d |-> root, yield |-> <<e.v>>]
         ELSE [d |-> e.v, yield |-> << >>]
    ELSE [d |-> root, yield |-> << >>]

\* the loop of decode from position d: one record per input byte
RECURSIVE decode_walk(_, _, _, _)
decode_walk(h, root, d, code) ==
    IF code = << >> THEN << >>
    ELSE LET s == decode_step(h, root, d, Head(code))
         IN <<s>> \o decode_walk(h, root, s.d, Tail(code))

RECURSIVE Yields(_)
Yields(walk) == IF walk = << >> THEN << >> ELSE Head(walk).yield \o Yields(Tail(walk))

decode(h, root, code) == Yields(decode_walk(h, root, root, code))

\* a variant of copy that copies a dict of src into the dict dst already
\* holds under the same key, when it holds one
RECURSIVE copy_into(_, _, _, _)
copy_into(h, dst, src, ks) ==
    IF ks = {} THEN h
    ELSE LET k == CHOOSE x \in ks : \A y \in ks : x <= y
             v == h[src][k]
         IN IF v.isint THEN copy_into([h EXCEPT ![dst] = Put(@, k, v)], dst, src, ks \ {k})
            ELSE IF k \in DOMAIN h[dst] /\ ~h[dst][k].isint
            THEN copy_into(copy_into(h, h[dst][k].v, v.v, DOMAIN h[v.v]), dst, src, ks \ {k})
            ELSE LET d == Len(h) + 1
                     h1 == Append([h EXCEPT ![dst] = Put(@, k, DictEntry(d))], EmptyDict)
                 IN copy_into(copy_into(h1, d, v.v, DOMAIN h1[v.v]), dst, src, ks \ {k})

\* use_cmap's copy(dst, src), over the keys ks of src still to visit (in
\* ascending order): a dict value is copied into a new dict, which replaces
\* whatever dst held under k
RECURSIVE copy(_, _, _, _)
copy(h, dst, src, ks) ==
    IF ks = {} THEN h
    ELSE LET k == CHOOSE x \in ks : \A y \in ks : x <= y
             v == h[src][k]
         IN IF ~v.isint
            THEN LET d == Len(h) + 1
                     h1 == Append([h EXCEPT ![dst] = Put(@, k, DictEntry(d))], EmptyDict)
                     h2 == copy(h1, d, v.v, DOMAIN h1[v.v])
                 IN copy(h2, dst, src, ks \ {k})
            ELSE copy([h EXCEPT ![dst] = Put(@, k, v)], dst, src, ks \ {k})

\* a variant of use_cmap that keeps what dst holds under a key of src
use_cmap_keep(h, dst, src) == copy(h, dst, src, (DOMAIN h[src]) \ (DOMAIN h[dst]))

\* a variant of use_cmap that stores the dicts of src themselves in dst
use_cmap_link(h, dst, src) ==
    [h EXCEPT ![dst] = [x \in (DOMAIN h[dst]) \cup (DOMAIN h[src]) |->
                           IF x \in DOMAIN h[src] THEN h[src][x] ELSE h[dst][x]]]

\* cmap.use_cmap(other), both CMaps
use_cmap(h, dst, src) == copy(h, dst, src, DOMAIN h[src])

(***************************************************************************)
(* IdentityCMap                                                            *)
(***************************************************************************)
\* struct.unpack('>%dH' % n, code): n big-endian 2-byte numbers, and an error
\* unless code is exactly 2n bytes long
unpack_nH(n, code) ==
    IF Len(code) # 2 * n THEN [raised |-> "struct.error", out |-> << >>]
    ELSE [raised |-> "none",
          out |-> [j \in 1..n |-> ByteRadix * code[2 * j - 1] + code[2 * j]]]

\* a variant of identity_decode that reads the 2-byte numbers little-endian
identity_decode_le(code) ==
    IF Len(code) # 2 * (Len(code) \div 2) THEN [raised |-> "struct.error", out |-> << >>]
    ELSE [raised |-> "none",
          out |-> [j \in 1..(Len(code) \div 2) |-> ByteRadix * code[2 * j] + code[2 * j - 1]]]

\* IdentityCMap.decode
identity_decode(code) == unpack_nH(Len(code) \div 2, code)

(***************************************************************************)
(* The parser's operands: Python objects as tagged records                 *)
(***************************************************************************)
PyInt(n) == [t |-> "int", n |-> n]
PyStr(b) == [t |-> "str", b |-> b]
PyLit(name) == [t |-> "lit", name |-> name]
PyList(xs) == [t |-> "list", items |-> xs]
PyKw(name) == [t |-> "kw", name |-> name]

\* the number of trailing bytes of a code that vary over a range, which is
\* also the number of bytes pack('>L', ...) makes
VarLen == 4

\* s[-n:]
LastBytes(s, n) == IF n = 0 \/ Len(s) <= n THEN s ELSE SubSeq(s, Len(s) - n + 1, Len(s))
\* s[:-n] for n > 0
ButLastBytes(s, n) == IF Len(s) <= n THEN << >> ELSE SubSeq(s, 1, Len(s) - n)

\* pack('>L', v)
pack_L(v) ==
    IF v < 0 \/ v >= ByteRadix ^ VarLen THEN [raised |-> "struct.error", out |-> << >>]
    ELSE [raised |-> "none",
          out |-> [k \in 1..VarLen |-> (v \div (ByteRadix ^ (VarLen - k))) % ByteRadix]]

\* utils.nunpack: the big-endian number a byte-string spells (0 for the empty one)
RECURSIVE nunpack(_)
nunpack(b) ==
    IF b = << >> THEN 0 ELSE nunpack(SubSeq(b, 1, Len(b) - 1)) * ByteRadix + b[Len(b)]

\* utils.choplist: the full groups of n consecutive objects
choplist(n, objs) == [g \in 1..(Len(objs) \div n) |-> SubSeq(objs, n * (g - 1) + 1, n * g)]

\* encodingdb.name2unicode: the code point of a glyph name
name2unicode(name) == IF name = "A" THEN 65 ELSE 0

\* the cmap the parser fills: FileCMap A, or a FileUnicodeMap
TargetRoot == Root("A")

\* self.cmap.add_code2cid(code, cid): a FileUnicodeMap has no such method
cmap_add_code2cid(k, st, code, cid) ==
    IF k # "FileCMap" THEN [st EXCEPT !.raised = "AttributeError"]
    ELSE LET r == add_code2cid(st.heap, TargetRoot, code, cid)
         IN [st EXCEPT !.heap = r.heap, !.raised = r.raised]

\* a variant of add_cid2unicode that ignores a code of another kind
add_cid2unicode_lenient(k, st, cid, code) ==
    IF k # "FileUnicodeMap" THEN [st EXCEPT !.raised = "AttributeError"]
    ELSE IF code.t = "lit" THEN [st EXCEPT !.u = Put(@, cid, name2unicode(code.name))]
    ELSE IF code.t = "str"
         THEN LET r == unpack_nH(1, code.b) IN
              IF r.raised # "none" THEN [st EXCEPT !.raised = r.raised]
              ELSE [st EXCEPT !.u = Put(@, cid, r.out[1])]
    ELSE IF code.t = "int" THEN [st EXCEPT !.u = Put(@, cid, code.n)]
    ELSE st

\* self.cmap.add_cid2unicode(cid, code): a FileCMap has no such method
add_cid2unicode(k, st, cid, code) ==
    IF k # "FileUnicodeMap" THEN [st EXCEPT !.raised = "AttributeError"]
    ELSE IF code.t = "lit" THEN [st EXCEPT !.u = Put(@, cid, name2unicode(code.name))]
    ELSE IF code.t = "str"
         THEN LET r == unpack_nH(1, code.b) IN
              IF r.raised # "none" THEN [st EXCEPT !.raised = r.raised]
              ELSE [st EXCEPT !.u = Put(@, cid, r.out[1])]
    ELSE IF code.t = "int" THEN [st EXCEPT !.u = Put(@, cid, code.n)]
    ELSE [st EXCEPT !.raised = "TypeError"]

\* CMapDB.get_cmap(name); the one cmap module there is, "B", holds the dict
\* of CMap B
get_cmap(name) ==
    IF name = "Identity-H" THEN [raised |-> "none", class |-> "IdentityCMap", root |-> 0]
    ELSE IF name = "Identity-V" THEN [raised |-> "none", class |-> "IdentityCMap", root |-> 0]
    ELSE IF name = "B" THEN [raised |-> "none", class |-> "PyCMap", root |-> Root("B")]
    ELSE [raised |-> "CMapNotFound", class |-> "", root |-> 0]

\* self.cmap.use_cmap(cmap): a FileUnicodeMap has no such method, and an
\* IdentityCMap is not a CMap
cmap_use_cmap(k, st, cmap) ==
    IF k # "FileCMap" THEN [st EXCEPT !.raised = "AttributeError"]
    ELSE IF cmap.class = "IdentityCMap" THEN [st EXCEPT !.raised = "AssertionError"]
    ELSE [st EXCEPT !.heap = use_cmap(st.heap, TargetRoot, cmap.root)]

\* endcidrange: for i in xrange(e1-s1+1), from i on
RECURSIVE cidrange_loop(_, _, _, _, _, _, _, _)
cidrange_loop(k, st, sprefix, vlen, s1, cid, i, n) ==
    IF i >= n \/ st.raised # "none" THEN st
    ELSE LET x == sprefix \o LastBytes(pack_L(s1 + i).out, vlen)
         IN cidrange_loop(k, cmap_add_code2cid(k, st, x, cid + i),
                          sprefix, vlen, s1, cid, i + 1, n)

\* a variant of cidrange_group that does not compare the prefixes
cidrange_group_any_prefix(k, st, s, e, cid) ==
    IF s.t # "str" \/ e.t # "str" \/ cid.t # "int" THEN st
    ELSE IF Len(s.b) # Len(e.b) THEN st
    ELSE LET svar == LastBytes(s.b, VarLen)
         IN cidrange_loop(k, st, ButLastBytes(s.b, VarLen), Len(svar), nunpack(svar), cid.n,
                          0, nunpack(LastBytes(e.b, VarLen)) - nunpack(svar) + 1)

\* endcidrange: the body of the loop over the groups, for the group (s, e, cid)
cidrange_group(k, st, s, e, cid) ==
    IF s.t # "str" \/ e.t # "str" \/ cid.t # "int" THEN st
    ELSE IF Len(s.b) # Len(e.b) THEN st
    ELSE LET sprefix == ButLastBytes(s.b, VarLen)
             eprefix == ButLastBytes(e.b, VarLen)
             svar == LastBytes(s.b, VarLen)
             evar == LastBytes(e.b, VarLen)
             s1 == nunpack(svar)
             e1 == nunpack(evar)
         IN IF sprefix # eprefix THEN st
            ELSE cidrange_loop(k, st, sprefix, Len(svar), s1, cid.n, 0, e1 - s1 + 1)

\* endcidchar: the body of the loop, for the group (cid, code)
cidchar_group(k, st, cid, code) ==
    IF code.t = "str" /\ cid.t = "str"
    THEN cmap_add_code2cid(k, st, code.b, nunpack(cid.b))
    ELSE st

\* endbfrange, list form: for i in xrange(e1-s1+1), from i on
RECURSIVE bfrange_list_loop(_, _, _, _, _, _)
bfrange_list_loop(k, st, s1, code, i, n) ==
    IF i >= n \/ st.raised # "none" THEN st
    ELSE IF i + 1 > Len(code) THEN [st EXCEPT !.raised = "IndexError"]
    ELSE bfrange_list_loop(k, add_cid2unicode(k, st, s1 + i, code[i + 1]), s1, code, i + 1, n)

\* endbfrange, template form: for i in xrange(e1-s1+1), from i on
RECURSIVE bfrange_var_loop(_, _, _, _, _, _, _, _)
bfrange_var_loop(k, st, s1, prefix, vlen, base, i, n) ==
    IF i >= n \/ st.raised # "none" THEN st
    ELSE LET pk == pack_L(base + i) IN
         IF pk.raised # "none" THEN [st EXCEPT !.raised = pk.raised]
         ELSE bfrange_var_loop(k, add_cid2unicode(k, st, s1 + i,
                                                  PyStr(prefix \o LastBytes(pk.out, vlen))),
                               s1, prefix, vlen, base, i + 1, n)

\* endbfrange: the body of the loop over the groups, for the group (s, e, code)
bfrange_group(k, st, s, e, code) ==
    IF s.t # "str" \/ e.t # "str" THEN st
    ELSE IF Len(s.b) # Len(e.b) THEN st
    ELSE LET s1 == nunpack(s.b)
             e1 == nunpack(e.b)
         IN IF code.t = "list" THEN bfrange_list_loop(k, st, s1, code.items, 0, e1 - s1 + 1)
            ELSE IF code.t # "str" THEN [st EXCEPT !.raised = "TypeError"]
            ELSE LET var == LastBytes(code.b, VarLen)
                 IN bfrange_var_loop(k, st, s1, ButLastBytes(code.b, VarLen), Len(var),
                                     nunpack(var), 0, e1 - s1 + 1)

\* endbfchar: the body of the loop, for the group (cid, code)
bfchar_group(k, st, cid, code) ==
    IF cid.t = "str" /\ code.t = "str"
    THEN add_cid2unicode(k, st, nunpack(cid.b), code)
    ELSE st

\* the loop of an end keyword over the groups gs, from group g on; an
\* exception ends it
RECURSIVE groups_loop(_, _, _, _, _)
groups_loop(name, k, st, gs, g) ==
    IF g > Len(gs) \/ st.raised # "none" THEN st
    ELSE LET x == gs[g]
             st1 == CASE name = "endcidrange" -> cidrange_group(k, st, x[1], x[2], x[3])
                      [] name = "endcidchar" -> cidchar_group(k, st, x[1], x[2])
                      [] name = "endbfrange" -> bfrange_group(k, st, x[1], x[2], x[3])
                      [] name = "endbfchar" -> bfchar_group(k, st, x[1], x[2])
         IN groups_loop(name, k, st1, gs, g + 1)

\* the keywords that only empty the stack
PopAllKeywords ==
    {"begincodespacerange", "endcodespacerange", "begincidrange", "begincidchar",
     "beginbfrange", "beginbfchar", "beginnotdefrange", "endnotdefrange"}
\* the end keywords that read the stack in groups, with the size of a group
GroupKeywords == {"endcidrange", "endcidchar", "endbfrange", "endbfchar"}
GroupSize(name) == IF name \in {"endcidrange", "endbfrange"} THEN 3 ELSE 2

\* a variant of do_keyword that looks at the keyword only: begincmap and
\* endcmap as in do_keyword, any other keyword pushed as the default is
do_keyword_default_push(k, st, name) ==
    IF name = "begincmap" THEN [st EXCEPT !.in_cmap = TRUE, !.stack = << >>]
    ELSE IF name = "endcmap" THEN [st EXCEPT !.in_cmap = FALSE]
    ELSE [st EXCEPT !.stack = Append(@, PyKw(name))]

\* CMapParser.do_keyword(pos, token) on the parser state st =
\* [heap, u, attrs, stack, in_cmap, raised], for the cmap class k
do_keyword(k, st, name) ==
    IF name = "begincmap" THEN [st EXCEPT !.in_cmap = TRUE, !.stack = << >>]
    ELSE IF name = "endcmap" THEN [st EXCEPT !.in_cmap = FALSE]
    ELSE IF ~st.in_cmap THEN st
    ELSE IF name = "def" THEN
        IF Len(st.stack) < 2 THEN st
        ELSE LET n == Len(st.stack)
                 key == st.stack[n - 1]
                 val == st.stack[n]
                 popped == [st EXCEPT !.stack = SubSeq(@, 1, n - 2)]
             IN IF key.t # "lit" THEN popped
                ELSE [popped EXCEPT !.attrs = Put(@, key.name, val)]
    ELSE IF name = "usecmap" THEN
        IF Len(st.stack) < 1 THEN st
        ELSE LET n == Len(st.stack)
                 cmapname == st.stack[n]
                 popped == [st EXCEPT !.stack = SubSeq(@, 1, n - 1)]
             IN IF cmapname.t # "lit" THEN popped
                ELSE LET c == get_cmap(cmapname.name) IN
                     IF c.raised # "none" THEN popped
                     ELSE cmap_use_cmap(k, popped, c)
    ELSE IF name \in PopAllKeywords THEN [st EXCEPT !.stack = << >>]
    ELSE IF name \in GroupKeywords THEN
        groups_loop(name, k, [st EXCEPT !.stack = << >>],
                    choplist(GroupSize(name), st.stack), 1)
    ELSE [st EXCEPT !.stack = Append(@, PyKw(name))]

(***************************************************************************)
(* What a store holds, read without regard to node identity                *)
(***************************************************************************)
Absent == [isint |-> FALSE, v |-> -1]
ADict == [isint |-> FALSE, v |-> 0]

\* the value at the end of path k from dict d: an id, a dict, or nothing
RECURSIVE Lookup(_, _, _)
Lookup(h, d, k) ==
    IF k = << >> THEN ADict
    ELSE IF Head(k) \notin DOMAIN h[d] THEN Absent
    ELSE LET e == h[d][Head(k)] IN
         IF Len(k) = 1 THEN (IF e.isint THEN e ELSE ADict)
         ELSE IF e.isint THEN Absent
         ELSE Lookup(h, e.v, Tail(k))

\* the dicts reachable from dict d
RECURSIVE Reach(_, _)
Reach(h, d) ==
    {d} \cup UNION {Reach(h, h[d][c].v) : c \in {x \in DOMAIN h[d] : ~h[d][x].isint}}

\* the (code, id) pairs of the store at dict d
RECURSIVE Leaves(_, _)
Leaves(h, d) ==
    UNION {IF h[d][c].isint THEN {<<(<<c>>), h[d][c].v>>}
           ELSE {<<(<<c>>) \o p[1], p[2]>> : p \in Leaves(h, h[d][c].v)} : c \in DOMAIN h[d]}

IsPrefix(a, b) == Len(a) <= Len(b) /\ SubSeq(b, 1, Len(a)) = a
IsProperPrefix(a, b) == Len(a) < Len(b) /\ IsPrefix(a, b)

(***************************************************************************)
(* Initial state: two empty FileCMaps A and B, a parser outside a cmap     *)
(***************************************************************************)
Init ==
    /\ heap = <<EmptyDict, EmptyDict>>
    /\ hist = << >>
    /\ last = [op |-> "init"]
    /\ kind = "FileCMap"
    /\ stack = << >>
    /\ in_cmap = FALSE
    /\ cid2unicode = << >>
    /\ attrs = << >>
    /\ ntok = 0
    /\ run = "running"

parserVars == <<kind, stack, in_cmap, cid2unicode, attrs, ntok, run>>

(***************************************************************************)
(* Operations on the trie store.  hist is the sequence of store-building   *)
(* calls made so far, last is the latest call with its result and, in pre, *)
(* the heap it started from.  decode changes nothing, so a behaviour ends  *)
(* with it.                                                                *)
(***************************************************************************)
\* m.add_code2cid(code, cid)
AddCode2Cid(m, code, cid, max) ==
    /\ last.op # "decode"
    /\ Len(hist) < max
    /\ LET r == add_code2cid(heap, Root(m), code, cid)
           call == [op |-> "add_code2cid", m |-> m, code |-> code, cid |-> cid,
                    raised |-> r.raised]
       IN /\ heap' = r.heap
          /\ last' = call @@ [pre |-> heap]
          /\ hist' = Append(hist, call)
    /\ UNCHANGED parserVars

\* dst.use_cmap(src)
UseCmap(dst, src, max) ==
    /\ dst # src
    /\ Len(hist) < max
    /\ LET call == [op |-> "use_cmap", m |-> dst, src |-> src] IN
       /\ heap' = use_cmap(heap, Root(dst), Root(src))
       /\ last' = call @@ [pre |-> heap]
       /\ hist' = Append(hist, call)
    /\ UNCHANGED parserVars

\* list(m.decode(code)): the generator run to exhaustion
Decode(m, code) ==
    /\ last.op # "decode"
    /\ LET w == decode_walk(heap, Root(m), Root(m), code) IN
       last' = [op |-> "decode", m |-> m, code |-> code, walk |-> w, out |-> Yields(w)]
    /\ UNCHANGED <<heap, hist>>
    /\ UNCHANGED parserVars

\* IdentityCMap(vertical).decode(code), with what is_vertical() reports
IdentityDecode(vertical, code) ==
    /\ last.op = "init"
    /\ LET r == identity_decode(code) IN
       last' = [op |-> "identity_decode", vertical |-> vertical, is_vertical |-> vertical,
                code |-> code, out |-> r.out, raised |-> r.raised]
    /\ UNCHANGED <<heap, hist>>
    /\ UNCHANGED parserVars

\* one CMap built by add_code2cid and then decoded
Next ==
    \/ \E code \in Keys : AddCode2Cid("A", code, NewCid(Len(hist)), MaxOps)
    \/ \E code \in Codes : Decode("A", code)

Spec == Init /\ [][Next]_vars

\* two CMaps built by add_code2cid and merged with use_cmap
NextMerge ==
    \/ \E m \in CMaps, code \in Keys : AddCode2Cid(m, code, NewCid(Len(hist)), MaxMergeOps)
    \/ \E dst \in CMaps, src \in CMaps : UseCmap(dst, src, MaxMergeOps)

SpecMerge == Init /\ [][NextMerge]_vars

\* the two IdentityCMaps decoding a byte-string
NextIdentity ==
    \E vertical \in BOOLEAN, code \in ByteStrings(0, MaxIdLen) : IdentityDecode(vertical, code)

SpecIdentity == Init /\ [][NextIdentity]_vars

(***************************************************************************)
(* The parser.  PSStackParser reads one token at a time: an operand is     *)
(* pushed on the stack, a keyword is given to do_keyword.  An exception    *)
(* that do_keyword lets out ends run(), as the end of the input does.      *)
(***************************************************************************)
\* the operands the token stream brings to a range block: an integer, a
\* list, and codes of 0, 1, 4 and 5 bytes
RangeOperands ==
    {PyInt(5), PyList(<<PyInt(65)>>),
     PyStr(<< >>), PyStr(<<0>>), PyStr(<<2>>),
     PyStr(<<1, 0, 0, 0>>), PyStr(<<2, 0, 0, 1>>),
     PyStr(<<1, 0, 0, 0, 0>>), PyStr(<<2, 0, 0, 0, 1>>)}

\* the keywords the token stream brings
Keywords ==
    {"begincmap", "endcmap", "def", "usecmap", "foo"} \cup PopAllKeywords \cup GroupKeywords

ParserInit ==
    /\ heap = <<EmptyDict, EmptyDict>>
    /\ hist = << >>
    /\ last = [op |-> "init"]
    /\ kind \in {"FileCMap", "FileUnicodeMap"}
    /\ stack = << >>
    /\ in_cmap = FALSE
    /\ cid2unicode = << >>
    /\ attrs = << >>
    /\ ntok = 0
    /\ run = "running"

\* the next token is the operand obj
Push(obj) ==
    /\ run = "running"
    /\ ntok < MaxTokens
    /\ Len(stack) < MaxStack
    /\ stack' = Append(stack, obj)
    /\ ntok' = ntok + 1
    /\ last' = [op |-> "push", obj |-> obj]
    /\ UNCHANGED <<heap, hist, kind, in_cmap, cid2unicode, attrs, run>>

\* the next token is the keyword name
DoKeyword(name) ==
    /\ run = "running"
    /\ ntok < MaxTokens
    /\ LET st == [heap |-> heap, u |-> cid2unicode, attrs |-> attrs, stack |-> stack,
                  in_cmap |-> in_cmap, raised |-> "none"]
           r == do_keyword(kind, st, name)
       IN /\ heap' = r.heap
          /\ cid2unicode' = r.u
          /\ attrs' = r.attrs
          /\ stack' = r.stack
          /\ in_cmap' = r.in_cmap
          /\ run' = IF r.raised = "none" THEN "running" ELSE r.raised
          /\ last' = [op |-> "do_keyword", name |-> name, pre |-> st]
    /\ ntok' = ntok + 1
    /\ UNCHANGED <<hist, kind>>

\* the input ends: nextobject raises PSEOF and run returns
EndOfInput ==
    /\ run = "running"
    /\ run' = "returned"
    /\ last' = [op |-> "eof"]
    /\ UNCHANGED <<heap, hist, kind, stack, in_cmap, cid2unicode, attrs, ntok>>

NextParser ==
    \/ \E obj \in RangeOperands : Push(obj)
    \/ \E name \in Keywords : DoKeyword(name)
    \/ EndOfInput

SpecParser == ParserInit /\ [][NextParser]_vars

\* run() of a parser of a FileCMap on a finite token stream of a few
\* operands and keywords: nextobject keeps reading, so a token is read or
\* the end of the input is met as long as run() has not ended
RunOperands == {PyInt(5), PyStr(<<0>>), PyLit("Identity-H")}
RunKeywords == {"begincmap", "endcmap", "usecmap", "endcidrange", "endbfrange"}

RunInit == ParserInit /\ kind = "FileCMap"

NextRun ==
    \/ \E obj \in RunOperands : Push(obj)
    \/ \E name \in RunKeywords : DoKeyword(name)
    \/ EndOfInput

SpecRun == RunInit /\ [][NextRun]_vars /\ WF_vars(NextRun)

(***************************************************************************)
(* Properties of the trie store                                            *)
(***************************************************************************)
\* the codes given to m.add_code2cid so far, and the id of the latest call for k
Inserted(m) ==
    {hist[i].code : i \in {j \in 1..Len(hist) : hist[j].op = "add_code2cid" /\ hist[j].m = m}}
IdOf(m, k) ==
    LET js == {j \in 1..Len(hist) :
                 hist[j].op = "add_code2cid" /\ hist[j].m = m /\ hist[j].code = k}
    IN hist[CHOOSE j \in js : \A i \in js : i <= j].cid
PrefixFree(K) == \A a \in K, b \in K : ~IsProperPrefix(a, b)

\* C1: when the keys inserted with add_code2cid are prefix-free, decode of a
\* buffer that is exactly an inserted key k yields the one-element sequence
\* [id of k].
C1_DecodeOfKey ==
    (/\ last.op = "decode"
     /\ PrefixFree(Inserted(last.m))
     /\ last.code \in Inserted(last.m))
    => last.out = <<IdOf(last.m, last.code)>>

C1_Witness ==
    /\ last.op = "decode"
    /\ Len(hist) = 2
    /\ hist[1].code # hist[2].code
    /\ PrefixFree(Inserted(last.m))
    /\ last.code = hist[1].code
    /\ Len(last.code) = 2
    /\ last.out = <<hist[1].cid>>

\* C2: in a prefix-free store, decode of k1 + k2 for stored keys k1 and k2
\* yields decode(k1) followed by decode(k2), that is [id(k1), id(k2)], and
\* the walk is at the root after each id it emits.
C2_DecodeOfConcatenation ==
    last.op = "decode" /\ PrefixFree(Inserted(last.m)) =>
        \A k1 \in Inserted(last.m), k2 \in Inserted(last.m) :
            last.code = k1 \o k2 =>
                /\ last.out = <<IdOf(last.m, k1), IdOf(last.m, k2)>>
                /\ last.out = decode(heap, Root(last.m), k1) \o decode(heap, Root(last.m), k2)
                /\ \A i \in 1..Len(last.walk) :
                       last.walk[i].yield # << >> =>
                           /\ last.walk[i].d = Root(last.m)
                           /\ i \in {Len(k1), Len(last.code)}

C2_Witness ==
    /\ last.op = "decode"
    /\ Len(hist) = 2
    /\ PrefixFree(Inserted(last.m))
    /\ Len(hist[1].code) = 2
    /\ hist[1].code # hist[2].code
    /\ last.code = hist[1].code \o hist[2].code
    /\ last.out = <<hist[1].cid, hist[2].cid>>

\* C3: a byte with no entry at the current node emits nothing and resets the
\* walk to the root, and the walk goes on with the next byte (the byte is not
\* looked up again from the root: with keys AB and C, decoding A C emits
\* nothing); decode never raises (the walk is always at a dict) and emits at
\* most one id per input byte.
C3_UnmatchedByteDropped ==
    last.op = "decode" =>
        LET root == Root(last.m)
            At(i) == IF i = 1 THEN root ELSE last.walk[i - 1].d
        IN /\ Len(last.walk) = Len(last.code)
           /\ Len(last.out) <= Len(last.code)
           /\ \A i \in 1..Len(last.code) :
                  /\ At(i) \in 1..Len(heap)
                  /\ Len(last.walk[i].yield) <= 1
                  /\ last.code[i] \notin DOMAIN heap[At(i)] =>
                         last.walk[i].yield = << >> /\ last.walk[i].d = root
           /\ \A a \in KeyBytes, b \in KeyBytes, c \in KeyBytes :
                  (/\ Inserted(last.m) = {<<a, b>>, <<c>>}
                   /\ a # c
                   /\ b # c
                   /\ last.code = <<a, c>>) => last.out = << >>

C3_Witness ==
    /\ last.op = "decode"
    /\ Inserted(last.m) = {<<0, 0>>, <<1>>}
    /\ Lookup(heap, Root(last.m), <<0, 0>>) = IntEntry(IdOf(last.m, <<0, 0>>))
    /\ Lookup(heap, Root(last.m), <<1>>) = IntEntry(IdOf(last.m, <<1>>))
    /\ last.code = <<0, 1>>
    /\ last.out = << >>

(***************************************************************************)
(* Properties of use_cmap                                                  *)
(***************************************************************************)
\* C4: after A.use_cmap(B), every key that B's store maps to an id is mapped
\* by A's store to B's id, also when A mapped it to another id before.
C4_MergeSourceWins ==
    last.op = "use_cmap" =>
        \A k \in Keys :
            Lookup(last.pre, Root(last.src), k).isint =>
                Lookup(heap, Root(last.m), k) = Lookup(last.pre, Root(last.src), k)

C4_Witness ==
    /\ last.op = "use_cmap"
    /\ \E k \in Keys :
           /\ Lookup(last.pre, Root(last.m), k).isint
           /\ Lookup(last.pre, Root(last.src), k).isint
           /\ Lookup(last.pre, Root(last.m), k) # Lookup(last.pre, Root(last.src), k)
           /\ Lookup(heap, Root(last.m), k) = Lookup(last.pre, Root(last.src), k)

\* C5: use_cmap copies: after A.use_cmap(B), an insertion into B (also one
\* under a multi-byte prefix that was copied) leaves every lookup in A as it
\* was, and A and B share no dict.
MergedFrom(dst, src) ==
    \E i \in 1..Len(hist) : hist[i].op = "use_cmap" /\ hist[i].m = dst /\ hist[i].src = src

C5_MergeCopies ==
    \A dst \in CMaps, src \in CMaps :
        MergedFrom(dst, src) =>
            /\ Reach(heap, Root(dst)) \cap Reach(heap, Root(src)) = {}
            /\ (last.op = "add_code2cid" /\ last.m = src) =>
                   \A k \in Keys :
                       Lookup(heap, Root(dst), k) = Lookup(last.pre, Root(dst), k)

C5_Witness ==
    /\ Len(hist) = 3
    /\ hist[1].op = "add_code2cid" /\ hist[1].m = "B" /\ Len(hist[1].code) = 2
    /\ hist[2].op = "use_cmap" /\ hist[2].m = "A" /\ hist[2].src = "B"
    /\ last.op = "add_code2cid" /\ last.m = "B" /\ Len(last.code) = 2
    /\ last.code[1] = hist[1].code[1]
    /\ last.code # hist[1].code
    /\ Lookup(heap, Root("B"), last.code) = IntEntry(last.cid)
    /\ Lookup(heap, Root("A"), hist[1].code) = IntEntry(hist[1].cid)
    /\ Lookup(heap, Root("A"), last.code) = Absent

(***************************************************************************)
(* Properties of IdentityCMap                                              *)
(***************************************************************************)
\* the 2-byte big-endian numbers of the first 2n bytes of code
BigEndianPairs(code, n) == [j \in 1..n |-> ByteRadix * code[2 * j - 1] + code[2 * j]]

\* C6: for an input of even length 2n, IdentityCMap.decode returns n ids, the
\* j-th being radix * byte[2j] + byte[2j+1] (bytes counted from 0), for the
\* horizontal and for the vertical instance.
C6_IdentityDecodeEven ==
    (last.op = "identity_decode" /\ Len(last.code) % 2 = 0) =>
        /\ last.raised = "none"
        /\ Len(last.out) = Len(last.code) \div 2
        /\ last.out = BigEndianPairs(last.code, Len(last.code) \div 2)
        /\ last.is_vertical = last.vertical

C6_Witness ==
    /\ last.op = "identity_decode"
    /\ last.vertical
    /\ last.code = <<0, 1, 2, 0>>
    /\ last.out = <<1, 2 * ByteRadix>>

\* C7: for an input of odd length 2n+1, IdentityCMap.decode does not fail and
\* returns the n ids of the first 2n bytes.
C7_IdentityDecodeOdd ==
    (last.op = "identity_decode" /\ Len(last.code) % 2 = 1) =>
        /\ last.raised = "none"
        /\ last.out = BigEndianPairs(last.code, Len(last.code) \div 2)

\* the operands the token stream brings to def and usecmap: names the
\* registry knows ("B"), does not know ("X") and reserves, and the operands
\* of a one-byte cidrange
NameOperands ==
    {PyLit("B"), PyLit("X"), PyLit("Identity-H"), PyLit("Identity-V"),
     PyInt(5), PyStr(<<0>>)}

\* a parser of a cmap, with the cmap module B holding the code 00 01
NamesInit ==
    /\ heap = add_code2cid(<<EmptyDict, EmptyDict>>, Root("B"), <<0, 1>>, 7).heap
    /\ hist = << >>
    /\ last = [op |-> "init"]
    /\ kind \in {"FileCMap", "FileUnicodeMap"}
    /\ stack = << >>
    /\ in_cmap = FALSE
    /\ cid2unicode = << >>
    /\ attrs = << >>
    /\ ntok = 0
    /\ run = "running"

NextNames ==
    \/ \E obj \in NameOperands : Push(obj)
    \/ \E name \in Keywords : DoKeyword(name)
    \/ EndOfInput

SpecNames == NamesInit /\ [][NextNames]_vars

\* a bfrange block of a parser of a FileUnicodeMap: codes of one byte and
\* templates of 1, 2 and 3 bytes
TemplateOperands ==
    {PyStr(<<0>>), PyStr(<<1>>), PyStr(<<2>>),
     PyStr(<<0, 1>>), PyStr(<<2, 2>>), PyStr(<<0, 0, 1>>)}
TemplateKeywords == {"begincmap", "beginbfrange", "endbfrange", "endcmap"}

TemplateInit == ParserInit /\ kind = "FileUnicodeMap"

NextTemplate ==
    \/ \E obj \in TemplateOperands : Push(obj)
    \/ \E name \in TemplateKeywords : DoKeyword(name)
    \/ EndOfInput

SpecTemplate == TemplateInit /\ [][NextTemplate]_vars

(***************************************************************************)
(* The unicode store filled by direct calls of add_cid2unicode             *)
(***************************************************************************)
\* the values given to add_cid2unicode: integers, glyph names, byte-strings
\* of 0 to 3 bytes, lists and a keyword
UnicodeValues ==
    {PyInt(65), PyInt(ByteRadix ^ 4), PyLit("A"), PyLit("B"),
     PyList(<< >>), PyList(<<PyList(<<PyInt(65)>>)>>), PyKw("foo")}
        \cup {PyStr(b) : b \in ByteStrings(0, 3)}

UnicodeInit ==
    /\ heap = <<EmptyDict, EmptyDict>>
    /\ hist = << >>
    /\ last = [op |-> "init"]
    /\ kind = "FileUnicodeMap"
    /\ stack = << >>
    /\ in_cmap = FALSE
    /\ cid2unicode = << >>
    /\ attrs = << >>
    /\ ntok = 0
    /\ run = "running"

\* FileUnicodeMap.add_cid2unicode(cid, code)
AddCid2Unicode(cid, code) ==
    /\ Len(hist) < MaxUnicodeOps
    /\ LET st == [heap |-> heap, u |-> cid2unicode, attrs |-> attrs, stack |-> stack,
                  in_cmap |-> in_cmap, raised |-> "none"]
           r == add_cid2unicode(kind, st, cid, code)
           call == [op |-> "add_cid2unicode", cid |-> cid, code |-> code,
                    raised |-> r.raised]
       IN /\ cid2unicode' = r.u
          /\ last' = call @@ [pre |-> cid2unicode]
          /\ hist' = Append(hist, call)
    /\ UNCHANGED <<heap, kind, stack, in_cmap, attrs, ntok, run>>

NextUnicode == \E code \in UnicodeValues : AddCid2Unicode(NewCid(Len(hist)), code)

SpecUnicode == UnicodeInit /\ [][NextUnicode]_vars

(***************************************************************************)
(* Properties of the range keywords                                        *)
(***************************************************************************)
\* v as a big-endian number of w bytes
BigEndian(v, w) == [j \in 1..w |-> (v \div (ByteRadix ^ (w - j))) % ByteRadix]
\* the value of b read as a big-endian number
RECURSIVE ValueOf(_)
ValueOf(b) == IF b = << >> THEN 0 ELSE ValueOf(SubSeq(b, 1, Len(b) - 1)) * ByteRadix + b[Len(b)]
\* the leading bytes of a code (all but its last 4) and its trailing bytes
PrefixOf(b) == SubSeq(b, 1, Len(b) - 4)
SuffixOf(b) == SubSeq(b, (IF Len(b) > 4 THEN Len(b) - 4 ELSE 0) + 1, Len(b))
RECURSIVE Concat(_)
Concat(ss) == IF ss = << >> THEN << >> ELSE Head(ss) \o Concat(Tail(ss))

\* do_keyword(name) has just run inside a cmap on a stack that held exactly
\* the operands of one group
JustRan(name) == last.op = "do_keyword" /\ last.name = name /\ last.pre.in_cmap
OneRangeGroup ==
    /\ Len(last.pre.stack) = 3
    /\ last.pre.stack[1].t = "str"
    /\ last.pre.stack[2].t = "str"
    /\ Len(last.pre.stack[1].b) = Len(last.pre.stack[2].b)
RangeStart == last.pre.stack[1].b
RangeEnd == last.pre.stack[2].b

\* the keys of a cidrange group (s, e, cid), in order
RangeKeys(s, e) ==
    [j \in 1..(ValueOf(SuffixOf(e)) - ValueOf(SuffixOf(s)) + 1) |->
        PrefixOf(s) \o BigEndian(ValueOf(SuffixOf(s)) + j - 1, Len(SuffixOf(s)))]

\* what C8 says of the group (s, e, cid) on the stack of the endcidrange that
\* has just run
RangeExpanded ==
    LET keys == RangeKeys(RangeStart, RangeEnd)
        cid == last.pre.stack[3].n
        new == {<<keys[j], cid + j - 1>> : j \in 1..Len(keys)}
    IN /\ run = "running"
       /\ new \subseteq Leaves(heap, TargetRoot)
       /\ Leaves(heap, TargetRoot) \ Leaves(last.pre.heap, TargetRoot) \subseteq new
       /\ Cardinality(new) = Len(keys)
       /\ decode(heap, TargetRoot, Concat(keys)) = [j \in 1..Len(keys) |-> cid + j - 1]

\* C8: an endcidrange group (start, end, start_id) of equal-length byte-strings
\* with equal prefixes and s1 <= e1 inserts exactly the e1-s1+1 mappings
\* prefix + big-endian(s1+i) (in the width of the suffix) -> start_id+i, and
\* decoding the keys in a row yields start_id, start_id+1, ...
C8_RangeExpansion ==
    (/\ JustRan("endcidrange")
     /\ kind = "FileCMap"
     /\ OneRangeGroup
     /\ last.pre.stack[3].t = "int"
     /\ PrefixOf(RangeStart) = PrefixOf(RangeEnd)
     /\ ValueOf(SuffixOf(RangeStart)) <= ValueOf(SuffixOf(RangeEnd)))
    => RangeExpanded

\* C8 for the codes that are not empty
C8_RangeExpansionOfNonEmptyCodes ==
    (/\ JustRan("endcidrange")
     /\ kind = "FileCMap"
     /\ OneRangeGroup
     /\ last.pre.stack[3].t = "int"
     /\ RangeStart # << >>
     /\ PrefixOf(RangeStart) = PrefixOf(RangeEnd)
     /\ ValueOf(SuffixOf(RangeStart)) <= ValueOf(SuffixOf(RangeEnd)))
    => RangeExpanded

C8_NonEmptyWitness ==
    /\ JustRan("endcidrange")
    /\ kind = "FileCMap"
    /\ last.pre.stack = <<PyStr(<<0>>), PyStr(<<2>>), PyInt(5)>>
    /\ Leaves(heap, TargetRoot) = {<<(<<0>>), 5>>, <<(<<1>>), 6>>, <<(<<2>>), 7>>}

\* C9 as claimed: the endcidrange group 01 00 00 00, 02 00 00 01 is discarded
\* as a prefix mismatch, and no mapping is inserted.
C9_FourByteGroupDiscarded ==
    (/\ JustRan("endcidrange")
     /\ OneRangeGroup
     /\ last.pre.stack[3].t = "int"
     /\ RangeStart = <<1, 0, 0, 0>>
     /\ RangeEnd = <<2, 0, 0, 1>>)
    => Leaves(heap, TargetRoot) = Leaves(last.pre.heap, TargetRoot)

\* C9, amended: an endcidrange group whose codes are longer than 4 bytes and
\* differ in their leading bytes (all but the last 4) is discarded: nothing
\* is inserted and nothing is raised.  The 4-byte codes 01 00 00 00 and
\* 02 00 00 01 have no leading bytes, and that group is expanded into its
\* e1-s1+1 mappings.
C9_PrefixMismatchDiscarded ==
    (JustRan("endcidrange") /\ OneRangeGroup /\ last.pre.stack[3].t = "int") =>
        /\ (Len(RangeStart) > 4 /\ PrefixOf(RangeStart) # PrefixOf(RangeEnd)) =>
               /\ heap = last.pre.heap
               /\ cid2unicode = last.pre.u
               /\ run = "running"
        /\ (kind = "FileCMap" /\ RangeStart = <<1, 0, 0, 0>> /\ RangeEnd = <<2, 0, 0, 1>>) =>
               /\ run = "running"
               /\ Cardinality(Leaves(heap, TargetRoot)) =
                      ValueOf(RangeEnd) - ValueOf(RangeStart) + 1

C9_Witness ==
    /\ JustRan("endcidrange")
    /\ kind = "FileCMap"
    /\ last.pre.stack = <<PyStr(<<1, 0, 0, 0, 0>>), PyStr(<<2, 0, 0, 0, 1>>), PyInt(5)>>
    /\ Leaves(heap, TargetRoot) = {}
    /\ run = "running"

\* C10: an endcidrange or endbfrange group whose end value e1 is smaller
\* than its start value s1 expands to nothing: no mapping is inserted and no
\* error is raised.
EmptyRangeGroup(name) ==
    /\ JustRan(name)
    /\ OneRangeGroup
    /\ ValueOf(SuffixOf(RangeEnd)) < ValueOf(SuffixOf(RangeStart))
    /\ ValueOf(RangeEnd) < ValueOf(RangeStart)
NothingDone ==
    /\ heap = last.pre.heap
    /\ cid2unicode = last.pre.u
    /\ run = "running"

C10_EmptyRange ==
    (EmptyRangeGroup("endcidrange") \/ EmptyRangeGroup("endbfrange")) => NothingDone

\* C10 for the groups whose third operand is of a kind the keyword expects
C10_EmptyRangeOfExpectedKinds ==
    (\/ EmptyRangeGroup("endcidrange")
     \/ EmptyRangeGroup("endbfrange") /\ last.pre.stack[3].t \in {"list", "str"})
    => NothingDone

C10_ExpectedKindsWitness ==
    /\ EmptyRangeGroup("endbfrange")
    /\ kind = "FileUnicodeMap"
    /\ last.pre.stack[3].t = "str"
    /\ NothingDone

(***************************************************************************)
(* Properties of the parser's keywords                                     *)
(***************************************************************************)
\* C11: on endcidchar a group pushed as (code: byte-string, id: integer)
\* inserts exactly code -> id into the trie store, and a group of other
\* types is skipped.
C11_CidCharInserts ==
    (/\ JustRan("endcidchar")
     /\ kind = "FileCMap"
     /\ Len(last.pre.stack) = 2)
    => IF /\ last.pre.stack[1].t = "str"
          /\ last.pre.stack[1].b # << >>
          /\ last.pre.stack[2].t = "int"
       THEN /\ run = "running"
            /\ Leaves(heap, TargetRoot) =
                   Leaves(last.pre.heap, TargetRoot)
                       \cup {<<last.pre.stack[1].b, last.pre.stack[2].n>>}
       ELSE (last.pre.stack[1].t # "str" \/ last.pre.stack[2].t # "int") =>
                heap = last.pre.heap /\ run = "running"

\* C12: begincmap moves the parser inside a cmap, endcmap moves it outside,
\* and right after endcmap the operand stack is empty.
C12_EndCmapEmptiesStack ==
    /\ (last.op = "do_keyword" /\ last.name = "begincmap") => in_cmap
    /\ (last.op = "do_keyword" /\ last.name = "endcmap") => ~in_cmap /\ stack = << >>

\* the two transitions of C12 without the stack
C12_InsideOutside ==
    /\ (last.op = "do_keyword" /\ last.name = "begincmap") => in_cmap
    /\ (last.op = "do_keyword" /\ last.name = "endcmap") => ~in_cmap

\* C13: outside a cmap a keyword other than begincmap and endcmap changes
\* neither store, nor the attributes, the stack or the inside/outside state;
\* begincmap empties the stack, and a keyword that finds the stack empty
\* adds no mapping and no attribute.
C13_OutsideNoOp ==
    last.op = "do_keyword" =>
        /\ (~last.pre.in_cmap /\ last.name \notin {"begincmap", "endcmap"}) =>
               /\ heap = last.pre.heap
               /\ cid2unicode = last.pre.u
               /\ attrs = last.pre.attrs
               /\ stack = last.pre.stack
               /\ in_cmap = last.pre.in_cmap
               /\ run = "running"
        /\ last.name = "begincmap" =>
               /\ stack = << >>
               /\ heap = last.pre.heap
               /\ cid2unicode = last.pre.u
               /\ attrs = last.pre.attrs
        /\ last.pre.stack = << >> =>
               /\ heap = last.pre.heap
               /\ cid2unicode = last.pre.u
               /\ attrs = last.pre.attrs

C13_Witness ==
    /\ last.op = "do_keyword"
    /\ last.name = "endcidrange"
    /\ ~last.pre.in_cmap
    /\ last.pre.stack = <<PyStr(<<0>>), PyStr(<<2>>), PyInt(5)>>
    /\ kind = "FileCMap"
    /\ stack = last.pre.stack
    /\ Leaves(heap, TargetRoot) = {}

\* C14: endbfrange never raises, and a group whose replacement list has
\* fewer than e1-s1+1 entries is skipped: the unicode store gets no mapping
\* from it.
ShortListGroup ==
    /\ OneRangeGroup
    /\ last.pre.stack[3].t = "list"
    /\ Len(last.pre.stack[3].items) < ValueOf(RangeEnd) - ValueOf(RangeStart) + 1

C14_BfRangeAllOrNothing ==
    (JustRan("endbfrange") /\ kind = "FileUnicodeMap") =>
        /\ run = "running"
        /\ ShortListGroup => cid2unicode = last.pre.u

\* usecmap has just run inside a cmap with the name literal on top of the stack
UsedName == last.pre.stack[Len(last.pre.stack)].name
JustUsedCmap ==
    /\ JustRan("usecmap")
    /\ kind = "FileCMap"
    /\ last.pre.stack # << >>
    /\ last.pre.stack[Len(last.pre.stack)].t = "lit"
\* the store of the target holds every mapping of the store at root
MergedIn(root) == Leaves(last.pre.heap, root) \subseteq Leaves(heap, TargetRoot)

\* C15: usecmap inside a cmap never ends the parse: the name is resolved and
\* the resolved map's store is merged into the target, or the target store
\* is unchanged; parsing goes on in both cases, also for a name the registry
\* does not know and for Identity-H and Identity-V.
C15_UseCmapNeverAborts ==
    JustUsedCmap =>
        /\ run = "running"
        /\ \/ get_cmap(UsedName).raised = "none" /\ UsedName = "B" /\ MergedIn(Root("B"))
           \/ Leaves(heap, TargetRoot) = Leaves(last.pre.heap, TargetRoot)

\* C15 for the names that are not reserved
C15_RegistryNames ==
    (JustUsedCmap /\ UsedName \notin {"Identity-H", "Identity-V"}) =>
        /\ run = "running"
        /\ IF UsedName = "B" THEN MergedIn(Root("B"))
           ELSE heap = last.pre.heap

C15_RegistryNamesWitness ==
    /\ JustUsedCmap
    /\ UsedName = "B"
    /\ Leaves(last.pre.heap, TargetRoot) = {}
    /\ Leaves(heap, TargetRoot) = {<<(<<0, 1>>), 7>>}
    /\ Reach(heap, TargetRoot) \cap Reach(heap, Root("B")) = {}
    /\ run = "running"

(***************************************************************************)
(* Properties of insertion along a path and of the merge's frame           *)
(***************************************************************************)
\* no stored key is a proper prefix of another stored key
NoLeafAbove(h, root) ==
    \A p \in Leaves(h, root), q \in Leaves(h, root) : ~IsProperPrefix(p[1], q[1])
\* the second of two insertions into A has just been made
SecondInsert == Len(hist) = 2 /\ last.op = "add_code2cid" /\ hist[1].op = "add_code2cid"

\* C16: insertion is last-write-wins along a path: insert(k, id1) and then
\* insert(k + suffix, id2) succeeds, k becomes an internal node and
\* k + suffix maps to id2; insert(k + suffix, id1) and then insert(k, id2)
\* replaces the subtree at k by the leaf; no stored key is a proper prefix of
\* another.
C16_LastWriteWinsAlongPath ==
    SecondInsert =>
        /\ NoLeafAbove(heap, Root("A"))
        /\ IsProperPrefix(hist[1].code, hist[2].code) =>
               /\ hist[2].raised = "none"
               /\ Lookup(heap, Root("A"), hist[1].code) = ADict
               /\ Lookup(heap, Root("A"), hist[2].code) = IntEntry(hist[2].cid)
        /\ IsProperPrefix(hist[2].code, hist[1].code) =>
               /\ hist[2].raised = "none"
               /\ Lookup(heap, Root("A"), hist[2].code) = IntEntry(hist[2].cid)
               /\ Lookup(heap, Root("A"), hist[1].code) = Absent

\* the half of C16 that inserts the shorter key last, and the invariant
C16_ShorterKeyLast ==
    SecondInsert =>
        /\ NoLeafAbove(heap, Root("A"))
        /\ IsProperPrefix(hist[2].code, hist[1].code) =>
               /\ hist[2].raised = "none"
               /\ Lookup(heap, Root("A"), hist[2].code) = IntEntry(hist[2].cid)
               /\ Lookup(heap, Root("A"), hist[1].code) = Absent

C16_ShorterKeyLastWitness ==
    /\ SecondInsert
    /\ hist[1].code = <<0, 1>>
    /\ hist[2].code = <<0>>
    /\ Leaves(heap, Root("A")) = {<<(<<0>>), hist[2].cid>>}

(***************************************************************************)
(* Properties of the unicode store                                         *)
(***************************************************************************)
\* the unicode store is as before the call, but for cid that now maps to v
StoredAs(v) ==
    /\ last.raised = "none"
    /\ last.cid \in DOMAIN cid2unicode
    /\ cid2unicode[last.cid] = v
    /\ \A c \in DOMAIN last.pre : c # last.cid => c \in DOMAIN cid2unicode /\ cid2unicode[c] = last.pre[c]
    /\ DOMAIN cid2unicode = DOMAIN last.pre \cup {last.cid}

\* C17: add_cid2unicode stores a 2-byte string b0 b1 as 256*b0+b1 (the radix
\* of the model for 256), an integer unchanged and a name literal as its
\* glyph-name lookup; a value of another kind raises an error and no entry
\* is written for the id.
C17_Normalization ==
    last.op = "add_cid2unicode" =>
        /\ (last.code.t = "str" /\ Len(last.code.b) = 2) =>
               StoredAs(ByteRadix * last.code.b[1] + last.code.b[2])
        /\ last.code.t = "int" => StoredAs(last.code.n)
        /\ last.code.t = "lit" => StoredAs(name2unicode(last.code.name))
        /\ last.code.t \notin {"str", "int", "lit"} =>
               /\ last.raised = "TypeError"
               /\ cid2unicode = last.pre
               /\ last.cid \notin DOMAIN cid2unicode

C17_Witness ==
    /\ Len(hist) = 2
    /\ hist[1].code = PyList(<<PyList(<<PyInt(65)>>)>>)
    /\ hist[1].raised = "TypeError"
    /\ last.op = "add_cid2unicode"
    /\ last.code = PyStr(<<1, 2>>)
    /\ DOMAIN cid2unicode = {last.cid}
    /\ cid2unicode[last.cid] = ByteRadix + 2

(***************************************************************************)
(* Termination of run()                                                    *)
(***************************************************************************)
\* C18: on every finite token stream run() ends, and it ends by returning
\* at the end of the input, never by raising.
C18_RunReturns == <>(run = "returned")

\* run() ends, by returning or by an exception of do_keyword
C18_RunEnds == <>(run # "running")

\* an exception is raised by do_keyword only, and run() does not go on after it
C18_RaisedByKeyword ==
    /\ run \notin {"running", "returned"} => last.op = "do_keyword"
    /\ run = "returned" => last.op = "eof"

(***************************************************************************)
(* The frame of the merge                                                  *)
(***************************************************************************)
\* the keys the source of the merge that has just run held before it
SourceKeys == {p[1] : p \in Leaves(last.pre, Root(last.src))}

\* C19 as claimed: after A.use_cmap(B), a key of A that is neither a key of
\* B, nor a proper prefix of one, nor an extension of one still maps to the
\* id it had.
C19_DisjointKeysSurvive ==
    last.op = "use_cmap" =>
        \A k \in Keys :
            (/\ Lookup(last.pre, Root(last.m), k).isint
             /\ \A q \in SourceKeys : q # k /\ ~IsProperPrefix(q, k) /\ ~IsProperPrefix(k, q))
            => Lookup(heap, Root(last.m), k) = Lookup(last.pre, Root(last.m), k)

\* C19, amended: after A.use_cmap(B), a key of A whose first byte is the
\* first byte of no key of B still maps to the id it had; under a first byte
\* of a key of B, A holds what B holds there and nothing else (A's 41 42 is
\* lost in a merge of a B that defines only 41 43).
C19_FirstByteFrame ==
    last.op = "use_cmap" =>
        \A k \in Keys :
            Lookup(last.pre, Root(last.m), k).isint =>
                IF \E q \in SourceKeys : q[1] = k[1]
                THEN Lookup(heap, Root(last.m), k) = Lookup(last.pre, Root(last.src), k)
                ELSE Lookup(heap, Root(last.m), k) = Lookup(last.pre, Root(last.m), k)

C19_Witness ==
    /\ last.op = "use_cmap"
    /\ Leaves(last.pre, Root(last.m)) = {<<(<<0, 0>>), 1>>}
    /\ Leaves(last.pre, Root(last.src)) = {<<(<<0, 1>>), 2>>}
    /\ Leaves(heap, Root(last.m)) = {<<(<<0, 1>>), 2>>}

(***************************************************************************)
(* Properties of the template form of endbfrange                           *)
(***************************************************************************)
\* endbfrange has just run on one group (s, e, template) with s1 <= e1
TemplateGroup ==
    /\ JustRan("endbfrange")
    /\ kind = "FileUnicodeMap"
    /\ OneRangeGroup
    /\ Len(RangeStart) <= 4
    /\ last.pre.stack[3].t = "str"
    /\ ValueOf(RangeStart) <= ValueOf(RangeEnd)
Template == last.pre.stack[3].b
\* the byte-string of position i: the template's prefix and base + i in the
\* width of the template's suffix
TemplateAt(i) ==
    PrefixOf(Template) \o BigEndian(ValueOf(SuffixOf(Template)) + i, Len(SuffixOf(Template)))
\* every code of the range is mapped, a 2-byte string as its UTF-16 unit
TemplateExpanded ==
    /\ run = "running"
    /\ \A i \in 0..(ValueOf(RangeEnd) - ValueOf(RangeStart)) :
           /\ ValueOf(RangeStart) + i \in DOMAIN cid2unicode
           /\ Len(TemplateAt(i)) = 2 =>
                  cid2unicode[ValueOf(RangeStart) + i] = ValueOf(TemplateAt(i))

\* C20: endbfrange with a byte-string template and s1 <= e1 maps s1+i, for
\* each i in 0..e1-s1, to the normalized value of template prefix +
\* big-endian(base+i) in the width of the template's suffix, without error
\* whatever the length of the template.
C20_TemplateExpansion == TemplateGroup => TemplateExpanded

\* C20 for the templates of 2 bytes
C20_TwoByteTemplates == (TemplateGroup /\ Len(Template) = 2) => TemplateExpanded

C20_TwoByteWitness ==
    /\ TemplateGroup
    /\ last.pre.stack = <<PyStr(<<0>>), PyStr(<<2>>), PyStr(<<0, 1>>)>>
    /\ DOMAIN cid2unicode = {0, 1, 2}
    /\ cid2unicode[0] = 1
    /\ cid2unicode[1] = 2
    /\ cid2unicode[2] = ByteRadix

====
